---- MODULE Spec2Model ----
(***************************************************************************)
(* Model of imagedisplay (src/src/main.rs): the Hilbert curve indexer      *)
(* (HilbertCurve), the byte-to-pixel transcoder (Image::parse /            *)
(* Image::save), the permutation passes (Image::hilbertify /               *)
(* Image::unhilbertify) and the control flow of main.                      *)
(*                                                                         *)
(* Rust integer arithmetic on usize: an overflowing +, - or * panics when  *)
(* the build has overflow checks (debug profile) and wraps modulo 2^bits   *)
(* otherwise (release profile).  The profile is the variable               *)
(* overflow_checks, chosen in Init.  Pure operators compute the wrapped    *)
(* result together with a flag `ovf` telling that some operation wrapped;  *)
(* the callers turn the flag into a panic when overflow_checks holds.      *)
(***************************************************************************)
EXTENDS Integers, Sequences, FiniteSets, TLC

VARIABLES
    overflow_checks, \* build profile: TRUE = overflow panics, FALSE = wraps
    pc,              \* position of the running program / harness
    panic,           \* "" or the reason the run panicked
    \* --- HilbertCurve harness (tests::inverse_hilbert) -------------------
    size,            \* argument of HilbertCurve::new
    order,           \* HilbertCurve.order
    index,           \* loop variable i of the test
    point,           \* curve.value_to_point(i)
    prev,            \* the point of the previous iteration
    value,           \* curve.point_to_value(point)
    \* --- Image::parse arguments and main's configuration -----------------
    values,          \* fs::read(path): the bytes of the input file
    config,          \* width, trim_start, trim_end, unhilbertify, save_path
    c,               \* the fill color handed to Image::parse
    \* --- Image and what happens to it ------------------------------------
    image,           \* Image{data, width, height}
    orig,            \* the image before the permutation passes
    ops,             \* the permutation passes that ran to completion
    dests,           \* new_position for each source index of the last pass
    file             \* the bytes written by fs::write, <<>> while unwritten

vars == <<overflow_checks, pc, panic, size, order, index, point, prev, value,
          values, config, c, image, orig, ops, dests, file>>

curveVars == <<size, order, index, point, prev, value>>
parseVars == <<values, config, c>>
imageVars == <<image, orig, ops, dests, file>>

(***************************************************************************)
(* Bounds of the model.                                                    *)
(***************************************************************************)
\* usize is modelled with UsizeBits bits.  Only a wrapped subtraction can
\* reach the top of the range; every other quantity stays far below it.
UsizeBits == 16
\* HilbertCurve::new is called with size in 0..MaxSize
MaxSize == 16
\* input files have 0..MaxLen bytes
MaxLen == 48
\* the contents of an input file follow one of the patterns 1..NumPatterns
NumPatterns == 2
\* config.width in 0..MaxWidth
MaxWidth == 4
\* config.trim_start and config.trim_end in 0..MaxTrim
MaxTrim == 1
\* grids handed directly to the permutation passes have sides up to MaxSide
MaxSide == 8
\* at most MaxPasses permutation passes are run on such a grid
MaxPasses == 2

Usize == 2 ^ UsizeBits

(***************************************************************************)
(* usize arithmetic                                                        *)
(***************************************************************************)
\* a - b on usize, wrapped
WrappingSub(a, b) == (a - b) % Usize

\* a - b on usize overflows
SubOverflows(a, b) == b > a

RECURSIVE BitAnd(_, _)
BitAnd(a, b) ==
    IF a = 0 \/ b = 0 THEN 0
    ELSE (a % 2) * (b % 2) + 2 * BitAnd(a \div 2, b \div 2)

RECURSIVE BitXor(_, _)
BitXor(a, b) ==
    IF a = 0 /\ b = 0 THEN 0
    ELSE (((a % 2) + (b % 2)) % 2) + 2 * BitXor(a \div 2, b \div 2)

\* `cond as usize`
AsUsize(cond) == IF cond THEN 1 ELSE 0

Pos2(x, y) == [x |-> x, y |-> y]

(***************************************************************************)
(* HilbertCurve                                                            *)
(***************************************************************************)
\* the while loop of HilbertCurve::new
RECURSIVE NewLoop(_, _)
NewLoop(current, ord) ==
    IF current > 0 THEN NewLoop(current \div 2, ord + 1)
    ELSE [current |-> current, order |-> ord]

\* HilbertCurve::new(size): the order, whether `order -= 1` overflowed, and
\* whether the power-of-two check panicked
HilbertCurve_new(sz) ==
    LET l == NewLoop(sz, 0)
    IN  [order |-> WrappingSub(l.order, 1),
         ovf   |-> SubOverflows(l.order, 1),
         panic |-> IF l.current # 0 THEN "size must be a power of 2" ELSE ""]

\* rotate without the reflection of the check.x == 1 case
rotateNoReflect(pos, check, val) ==
    IF check.y # 0
    THEN [x |-> pos.x, y |-> pos.y, ovf |-> FALSE]
    ELSE [x |-> pos.y, y |-> pos.x, ovf |-> FALSE]

\* HilbertCurve::rotate; ovf tells that a subtraction wrapped
rotate(pos, check, val) ==
    IF check.y # 0
    THEN [x |-> pos.x, y |-> pos.y, ovf |-> FALSE]
    ELSE IF check.x = 1
         THEN LET rx == WrappingSub(val - 1, pos.x)
                  ry == WrappingSub(val - 1, pos.y)
              IN  [x |-> ry, y |-> rx,
                   ovf |-> SubOverflows(val - 1, pos.x) \/ SubOverflows(val - 1, pos.y)]
         ELSE [x |-> pos.y, y |-> pos.x, ovf |-> FALSE]

\* the closure of point_to_value mapped over (0..order).rev() and summed:
\* k exponents are left, k-1 is the next one
RECURSIVE PointToValueFold(_, _, _)
PointToValueFold(n, k, pos) ==
    IF k = 0 THEN [sum |-> 0, ovf |-> FALSE]
    ELSE LET s    == 2 ^ (k - 1)
             rx   == AsUsize(BitAnd(pos.x, s) > 0)
             ry   == AsUsize(BitAnd(pos.y, s) > 0)
             r    == rotate(pos, Pos2(rx, ry), n)
             rest == PointToValueFold(n, k - 1, Pos2(r.x, r.y))
         IN  [sum |-> s * s * BitXor(3 * rx, ry) + rest.sum,
              ovf |-> r.ovf \/ rest.ovf]

\* point_to_value reading the coordinates the wrong way round
point_to_value_swapped(ord, pos) == PointToValueFold(2 ^ ord, ord, Pos2(pos.y, pos.x))

\* HilbertCurve::point_to_value
point_to_value(ord, pos) == PointToValueFold(2 ^ ord, ord, pos)

\* the for loop of value_to_point: exponent k of 0..order
RECURSIVE ValueToPointLoop(_, _, _, _)
ValueToPointLoop(ord, k, val, pos) ==
    IF k >= ord THEN pos
    ELSE LET s  == 2 ^ k
             rx == BitAnd(val \div 2, 1)
             ry == BitAnd(BitXor(val, rx), 1)
             r  == rotate(Pos2(pos.x, pos.y), Pos2(rx, ry), s)
         IN  ValueToPointLoop(ord, k + 1, val \div 4,
                 [x |-> r.x + s * rx, y |-> r.y + s * ry, ovf |-> pos.ovf \/ r.ovf])

\* HilbertCurve::value_to_point
value_to_point(ord, val) ==
    ValueToPointLoop(ord, 0, val, [x |-> 0, y |-> 0, ovf |-> FALSE])

(***************************************************************************)
(* Values the variables of the other parts keep while one part runs        *)
(***************************************************************************)
RGB(r, g, b) == [r |-> r, g |-> g, b |-> b]

NoImage == [data |-> <<>>, width |-> 0, height |-> 0]

NoFile == [written |-> FALSE, bytes |-> <<>>]

NoConfig == [width |-> 0, trim_start |-> 0, trim_end |-> 0,
             unhilbertify |-> FALSE, save_path |-> FALSE]

CurveIdle ==
    /\ size = 0 /\ order = 0 /\ index = 0 /\ value = 0
    /\ point = Pos2(0, 0) /\ prev = Pos2(0, 0)

ParseIdle == values = <<>> /\ config = NoConfig /\ c = RGB(0, 0, 0)

ImageIdle ==
    /\ image = NoImage /\ orig = NoImage /\ ops = <<>> /\ dests = <<>>
    /\ file = NoFile

(***************************************************************************)
(* tests::inverse_hilbert, for every size in 0..MaxSize                    *)
(***************************************************************************)
InitCurve ==
    /\ overflow_checks \in BOOLEAN
    /\ pc = "new"
    /\ panic = ""
    /\ size \in 0..MaxSize
    /\ order = 0 /\ index = 0 /\ value = 0
    /\ point = Pos2(0, 0) /\ prev = Pos2(0, 0)
    /\ ParseIdle
    /\ ImageIdle

\* let curve = HilbertCurve::new(n);
CurveNew ==
    /\ pc = "new"
    /\ LET res == HilbertCurve_new(size)
       IN  IF res.ovf /\ overflow_checks
           THEN /\ pc' = "panic"
                /\ panic' = "attempt to subtract with overflow"
                /\ order' = order
           ELSE IF res.panic # ""
           THEN /\ pc' = "panic"
                /\ panic' = res.panic
                /\ order' = order
           ELSE /\ pc' = "loop"
                /\ panic' = panic
                /\ order' = res.order
    /\ UNCHANGED <<overflow_checks, size, index, point, prev, value>>
    /\ UNCHANGED <<parseVars, imageVars>>

\* for i in 0..total { let point = curve.value_to_point(i);
CurveValueToPoint ==
    /\ pc = "loop"
    /\ index < size * size
    /\ LET p == value_to_point(order, index)
       IN  IF p.ovf /\ overflow_checks
           THEN /\ pc' = "panic"
                /\ panic' = "attempt to subtract with overflow"
                /\ UNCHANGED <<point, prev>>
           ELSE /\ pc' = "pointed"
                /\ panic' = panic
                /\ prev' = point
                /\ point' = Pos2(p.x, p.y)
    /\ UNCHANGED <<overflow_checks, size, order, index, value>>
    /\ UNCHANGED <<parseVars, imageVars>>

\* assert_eq!(curve.point_to_value(point), i); }
CurvePointToValue ==
    /\ pc = "pointed"
    /\ LET v == point_to_value(order, point)
       IN  IF v.ovf /\ overflow_checks
           THEN /\ pc' = "panic"
                /\ panic' = "attempt to subtract with overflow"
                /\ UNCHANGED <<value, index>>
           ELSE IF v.sum # index
           THEN /\ pc' = "panic"
                /\ panic' = "assertion left == right failed"
                /\ value' = v.sum
                /\ index' = index
           ELSE /\ pc' = "loop"
                /\ panic' = panic
                /\ value' = v.sum
                /\ index' = index + 1
    /\ UNCHANGED <<overflow_checks, size, order, point, prev>>
    /\ UNCHANGED <<parseVars, imageVars>>

\* the loop has run through 0..total
CurveDone ==
    /\ pc = "loop"
    /\ index >= size * size
    /\ pc' = "done"
    /\ UNCHANGED <<overflow_checks, panic, curveVars, parseVars, imageVars>>

NextCurve == CurveNew \/ CurveValueToPoint \/ CurvePointToValue \/ CurveDone

SpecCurve == InitCurve /\ [][NextCurve]_vars

(***************************************************************************)
(* Properties of HilbertCurve                                              *)
(***************************************************************************)
IsPow2(n) == \E k \in 0..n : 2 ^ k = n

Abs(n) == IF n < 0 THEN -n ELSE n

InGrid(p, n) == p.x \in 0..(n - 1) /\ p.y \in 0..(n - 1)

Neighbours(p, q) == Abs(p.x - q.x) + Abs(p.y - q.y) = 1

\* C1: for a power-of-two size the loop of the test never panics: for every
\* index i it has passed, point_to_value(value_to_point(i)) was i, and it
\* ends only after all of 0..size*size-1.
C1_RoundTrip ==
    IsPow2(size) =>
        /\ pc # "panic"
        /\ (pc = "loop" /\ index > 0) => value = index - 1
        /\ pc = "done" => index = size * size

C1_Witness ==
    /\ pc = "done" /\ size = 8 /\ index = 64
    /\ value = index - 1 /\ point # Pos2(0, 0)

\* C3: HilbertCurve::new(size) panics for every size that is not a power of
\* two, and when it returns, 2^order = size.
C3_NewRejects ==
    pc # "new" =>
        /\ ~IsPow2(size) => (pc = "panic" /\ index = 0 /\ point = Pos2(0, 0))
        /\ pc = "loop" => (order <= size /\ 2 ^ order = size)

\* C10: for a power-of-two size, every point of the walk lies in the grid
\* and is a grid neighbour of the point of the previous index.
C10_Continuous ==
    (pc = "pointed" /\ IsPow2(size)) =>
        /\ InGrid(point, size)
        /\ index >= 1 => (InGrid(prev, size) /\ Neighbours(prev, point))

C10_Witness ==
    /\ pc = "pointed" /\ size = 8 /\ index = 63
    /\ Neighbours(prev, point)

(***************************************************************************)
(* Image::parse                                                            *)
(***************************************************************************)
bpp == 3

Min(a, b) == IF a < b THEN a ELSE b

Panicked(msg) == [panic |-> msg, image |-> NoImage]

\* a slice that clamps the range instead of failing
TrimSliceClamped(vals, trim_start, trim_end) ==
    [panic |-> "",
     slice |-> SubSeq(vals, trim_start + 1, Len(vals) - trim_end)]

\* values[trim_start..(values.len() - trim_end)]
TrimSlice(vals, trim_start, trim_end) ==
    LET len == Len(vals)
        end == WrappingSub(len, trim_end)
    IN  IF SubOverflows(len, trim_end) /\ overflow_checks
        THEN [panic |-> "attempt to subtract with overflow", slice |-> <<>>]
        ELSE IF trim_start > end
        THEN [panic |-> "slice index starts past its end", slice |-> <<>>]
        ELSE IF end > len
        THEN [panic |-> "range end index out of range", slice |-> <<>>]
        ELSE [panic |-> "", slice |-> SubSeq(vals, trim_start + 1, end)]

\* slice.chunks(n)
Chunks(s, n) ==
    [k \in 1..((Len(s) + n - 1) \div n) |->
        SubSeq(s, (k - 1) * n + 1, Min(k * n, Len(s)))]

\* a closure that takes the missing channels from the wrong channel of c
ChunkColorWrongFill(chunk, fill) ==
    RGB(chunk[1],
        IF Len(chunk) >= 2 THEN chunk[2] ELSE fill.r,
        IF Len(chunk) >= 3 THEN chunk[3] ELSE fill.g)

\* the closure mapped over the chunks
ChunkColor(chunk, fill) ==
    RGB(chunk[1],
        IF Len(chunk) >= 2 THEN chunk[2] ELSE fill.g,
        IF Len(chunk) >= 3 THEN chunk[3] ELSE fill.b)

\* a ceiling taken as the quotient plus one, whatever the remainder
ParseHeightPlusOne(l, width) == (l \div width) + 1

\* the "ceil integer div" block
ParseHeight(l, width) ==
    IF l % width # 0 THEN (l \div width) + 1 ELSE l \div width

\* data.resize(total, c)
Resize(data, total, fill) ==
    [k \in 1..total |-> IF k <= Len(data) THEN data[k] ELSE fill]

\* Image::parse, after fs::read
Image_parse(vals, width, fill, trim_start, trim_end) ==
    LET t == TrimSlice(vals, trim_start, trim_end)
    IN  IF t.panic # "" THEN Panicked(t.panic)
        ELSE
        LET chunks == Chunks(t.slice, bpp)
            data   == [k \in 1..Len(chunks) |-> ChunkColor(chunks[k], fill)]
        IN  IF width = 0 THEN Panicked("attempt to divide by zero")
            ELSE
            LET height == ParseHeight(Len(data), width)
                total  == width * height
            IN  IF total < Len(data)
                THEN Panicked("total should never be less than len so far")
                ELSE [panic |-> "",
                      image |-> [data   |-> Resize(data, total, fill),
                                 width  |-> width,
                                 height |-> height]]

\* the bytes of an input file of len bytes, after pattern pat
FileBytes(len, pat) == [k \in 1..len |-> (pat * k + 100 * (pat - 1)) % 256]

Files == {FileBytes(len, pat) : len \in 0..MaxLen, pat \in 1..NumPatterns}

Fills == {RGB(0, 0, 0), RGB(10, 20, 30)}

InitParse ==
    /\ overflow_checks \in BOOLEAN
    /\ pc = "parse"
    /\ panic = ""
    /\ values \in Files
    /\ config \in [width : 0..MaxWidth, trim_start : 0..MaxTrim,
                   trim_end : 0..MaxTrim, unhilbertify : {FALSE},
                   save_path : {FALSE}]
    /\ c \in Fills
    /\ CurveIdle
    /\ ImageIdle

\* Image::parse(path, width, c, trim_start, trim_end)
ImageParse ==
    /\ pc = "parse"
    /\ LET res == Image_parse(values, config.width, c,
                              config.trim_start, config.trim_end)
       IN  /\ pc' = IF res.panic # "" THEN "panic" ELSE "parsed"
           /\ panic' = res.panic
           /\ image' = res.image
           /\ orig' = res.image
    /\ UNCHANGED <<overflow_checks, curveVars, parseVars, ops, dests, file>>

NextParse == ImageParse

SpecParse == InitParse /\ [][NextParse]_vars

(***************************************************************************)
(* Properties of Image::parse                                              *)
(***************************************************************************)
ParseReturned == pc \in {"parsed", "panic"}

TrimPanics == {"attempt to subtract with overflow",
               "slice index starts past its end",
               "range end index out of range"}

\* the bytes of the input between the trims, when the trims fit
Trimmed ==
    [k \in 1..(Len(values) - config.trim_start - config.trim_end) |->
        values[config.trim_start + k]]

\* the number of groups of bpp bytes the trimmed input has
GroupedCount == (Len(Trimmed) + 2) \div 3

\* C5: when trim_start + trim_end exceeds the length of the buffer,
\* Image::parse fails and returns no grid; otherwise the trim is not what
\* makes it fail.
C5_TrimBounds ==
    ParseReturned =>
        IF config.trim_start + config.trim_end > Len(values)
        THEN pc = "panic" /\ panic \in TrimPanics /\ image = NoImage
        ELSE panic \notin TrimPanics

C5_Witness ==
    /\ pc = "panic" /\ panic \in TrimPanics
    /\ config.trim_start + config.trim_end > Len(values)
    /\ config.trim_end <= Len(values)
    /\ config.width >= 1

\* C6: after a successful parse with width >= 1, height is the ceiling of
\* grouped_count / width, data has width * height >= grouped_count entries,
\* and the entries after the first grouped_count are the fill color.
C6_CeilingSizing ==
    (pc = "parsed" /\ config.width >= 1) =>
        /\ image.width = config.width
        /\ image.height * image.width >= GroupedCount
        /\ image.height * image.width < GroupedCount + image.width
        /\ Len(image.data) = image.width * image.height
        /\ \A k \in 1..Len(image.data) :
              IF k > GroupedCount
              THEN image.data[k] = c
              ELSE image.data[k].r = Trimmed[3 * (k - 1) + 1]

C6_Witness ==
    /\ pc = "parsed" /\ GroupedCount = 10 /\ config.width = 4
    /\ image.height = 3 /\ Len(image.data) = 12
    /\ c = RGB(10, 20, 30)
    /\ image.data[11] = c /\ image.data[12] = c /\ image.data[10] # c

\* C7: pixel k of a parsed grid is made of bytes 3k-2, 3k-1, 3k of the
\* trimmed input; where the input ends before byte 3k-1 or 3k (only in the
\* last group), the green or blue channel is that of the fill color.
C7_ShortFinalChunk ==
    pc = "parsed" =>
        /\ Len(image.data) >= GroupedCount
        /\ \A k \in 1..GroupedCount :
              LET n == Len(Trimmed)
                  b == 3 * (k - 1)
              IN  /\ image.data[k].r = Trimmed[b + 1]
                  /\ image.data[k].g = IF b + 2 <= n THEN Trimmed[b + 2] ELSE c.g
                  /\ image.data[k].b = IF b + 3 <= n THEN Trimmed[b + 3] ELSE c.b
                  /\ b + 3 > n => k = GroupedCount

C7_Witness ==
    /\ pc = "parsed" /\ c = RGB(10, 20, 30)
    /\ Len(Trimmed) % 3 = 1
    /\ GroupedCount >= 2
    /\ image.data[GroupedCount] = RGB(Trimmed[Len(Trimmed)], 20, 30)
    /\ Trimmed[Len(Trimmed)] # 10

(***************************************************************************)
(* Image::hilbertify, Image::unhilbertify, Image::save                     *)
(***************************************************************************)
\* to_index_assoc with the coordinates the wrong way round
to_index_transposed(width, pos) == pos.x * width + pos.y

\* Image::to_index_assoc
to_index_assoc(width, pos) == pos.y * width + pos.x

\* Image::index_to_pos_assoc
index_to_pos_assoc(width, idx) == Pos2(idx % width, idx \div width)

\* the buffer after the for_each of remap_positions (i counts from 1,
\* dst[i].pos is f(i - 1)): output starts as a copy of data and the writes
\* output[f(i)] = data[i] happen in the order of i, so entry j holds the
\* value of the last source index sent to j, or its initial copy
RemapOutput(data, dst) ==
    [j \in 1..Len(data) |->
        LET srcs == {i \in 1..Len(data) : dst[i].pos + 1 = j}
        IN  IF srcs = {} THEN data[j]
            ELSE data[CHOOSE i \in srcs : \A k \in srcs : k <= i]]

\* Image::remap_positions: dst[i] is the result of f(i - 1), with the flag
\* of an overflow inside f
remap_positions(data, dst) ==
    LET failing == {i \in 1..Len(data) :
                       (dst[i].ovf /\ overflow_checks) \/ dst[i].pos >= Len(data)}
        first   == CHOOSE i \in failing : \A j \in failing : i <= j
    IN  IF failing = {}
        THEN [panic |-> "", data |-> RemapOutput(data, dst),
              dests |-> [i \in 1..Len(data) |-> dst[i].pos]]
        ELSE [panic |-> IF dst[first].ovf /\ overflow_checks
                        THEN "attempt to subtract with overflow"
                        ELSE "index out of bounds",
              data |-> data, dests |-> <<>>]

\* a pass without its assert_eq!(self.width, self.height)
CurveFailureNoAssert(img) ==
    LET curve == HilbertCurve_new(img.width)
    IN  IF curve.ovf /\ overflow_checks THEN "attempt to subtract with overflow"
        ELSE curve.panic

\* the failure of a pass before remap_positions is called, or ""
CurveFailure(img) ==
    LET curve == HilbertCurve_new(img.width)
    IN  IF img.width # img.height THEN "assertion left == right failed"
        ELSE IF curve.ovf /\ overflow_checks THEN "attempt to subtract with overflow"
        ELSE curve.panic

\* Image::unhilbertify
Image_unhilbertify(img) ==
    LET sz    == img.width
        curve == HilbertCurve_new(sz)
        dst   == [i \in 1..Len(img.data) |->
                    LET pos == value_to_point(curve.order, i - 1)
                    IN  [pos |-> to_index_assoc(sz, pos), ovf |-> pos.ovf]]
    IN  IF CurveFailure(img) # ""
        THEN [panic |-> CurveFailure(img), data |-> img.data, dests |-> <<>>]
        ELSE remap_positions(img.data, dst)

\* Image::hilbertify
Image_hilbertify(img) ==
    LET sz    == img.width
        curve == HilbertCurve_new(sz)
        dst   == [i \in 1..Len(img.data) |->
                    LET v == point_to_value(curve.order, index_to_pos_assoc(sz, i - 1))
                    IN  [pos |-> v.sum, ovf |-> v.ovf]]
    IN  IF CurveFailure(img) # ""
        THEN [panic |-> CurveFailure(img), data |-> img.data, dests |-> <<>>]
        ELSE remap_positions(img.data, dst)

\* Image::save: the bytes handed to fs::write
Image_save(img) ==
    [k \in 1..(3 * Len(img.data)) |->
        LET px == img.data[((k - 1) \div 3) + 1]
        IN  IF k % 3 = 1 THEN px.r ELSE IF k % 3 = 2 THEN px.g ELSE px.b]

(***************************************************************************)
(* The permutation passes called on a grid                                 *)
(***************************************************************************)
\* pixel k of a grid filled after pattern pat: all pixels differ under
\* pattern 1, the later patterns repeat colors
GridPixel(k, pat) ==
    IF pat = 1 THEN RGB(k, 2 * k, 255 - k) ELSE RGB(k % pat, 0, (k \div pat) % 2)

Grids ==
    {[data   |-> [k \in 1..(w * h) |-> GridPixel(k, pat)],
      width  |-> w,
      height |-> h] : w \in 1..MaxSide, h \in 0..MaxSide, pat \in 1..NumPatterns}

InitGrid ==
    /\ overflow_checks \in BOOLEAN
    /\ pc = "grid"
    /\ panic = ""
    /\ image \in Grids
    /\ orig = image
    /\ ops = <<>> /\ dests = <<>> /\ file = NoFile
    /\ CurveIdle
    /\ ParseIdle

\* the outcome res of a pass called name
PassOutcome(name, res) ==
    /\ pc' = IF res.panic # "" THEN "panic" ELSE "grid"
    /\ panic' = res.panic
    /\ image' = [image EXCEPT !.data = res.data]
    /\ dests' = res.dests
    /\ ops' = IF res.panic # "" THEN ops ELSE Append(ops, name)

\* image.hilbertify()
GridHilbertify ==
    /\ pc = "grid"
    /\ Len(ops) < MaxPasses
    /\ PassOutcome("hilbertify", Image_hilbertify(image))
    /\ UNCHANGED <<overflow_checks, curveVars, parseVars, orig, file>>

\* image.unhilbertify()
GridUnhilbertify ==
    /\ pc = "grid"
    /\ Len(ops) < MaxPasses
    /\ PassOutcome("unhilbertify", Image_unhilbertify(image))
    /\ UNCHANGED <<overflow_checks, curveVars, parseVars, orig, file>>

NextGrid == GridHilbertify \/ GridUnhilbertify

SpecGrid == InitGrid /\ [][NextGrid]_vars

(***************************************************************************)
(* Properties of the permutation passes                                    *)
(***************************************************************************)
Square(img) == img.width = img.height

\* C2: on a square grid whose side is a power of two no pass fails, and
\* hilbertify followed by unhilbertify leaves data, width and height as they
\* were.
C2_GridRoundTrip ==
    (Square(image) /\ IsPow2(image.width)) =>
        /\ pc # "panic"
        /\ ops = <<"hilbertify", "unhilbertify">> => image = orig

C2_Witness ==
    /\ ops = <<"hilbertify", "unhilbertify">>
    /\ image.width = 8 /\ image.height = 8
    /\ image = orig
    /\ image.data[2] # image.data[3]
    /\ dests[2] # 1

\* the destinations of the last pass are indices of the buffer, no two the
\* same
DestsArePermutation ==
    /\ Len(dests) = Len(image.data)
    /\ \A i \in 1..Len(dests) : dests[i] \in 0..(image.width * image.height - 1)
    /\ \A i, j \in 1..Len(dests) : dests[i] = dests[j] => i = j

\* C9: after a pass that ran to completion on a square grid, the
\* destinations are a permutation of the indices and the value of every
\* source index is at its destination.
C9_Permutation ==
    (Square(image) /\ pc = "grid" /\ Len(ops) = 1) =>
        /\ DestsArePermutation
        /\ \A i \in 1..Len(orig.data) : image.data[dests[i] + 1] = orig.data[i]

(***************************************************************************)
(* main                                                                    *)
(***************************************************************************)
Init ==
    /\ overflow_checks \in BOOLEAN
    /\ pc = "main"
    /\ panic = ""
    /\ values \in Files
    /\ config \in [width : 0..MaxWidth, trim_start : 0..MaxTrim,
                   trim_end : 0..MaxTrim, unhilbertify : BOOLEAN,
                   save_path : BOOLEAN]
    /\ c = RGB(0, 0, 0)
    /\ CurveIdle
    /\ ImageIdle

\* let mut image = Image::parse(&config.input, config.width,
\*     Color::RGB(0, 0, 0), config.trim_start, config.trim_end);
MainParse ==
    /\ pc = "main"
    /\ LET res == Image_parse(values, config.width, RGB(0, 0, 0),
                              config.trim_start, config.trim_end)
       IN  /\ pc' = IF res.panic # "" THEN "panic" ELSE "parsed"
           /\ panic' = res.panic
           /\ image' = res.image
           /\ orig' = res.image
    /\ UNCHANGED <<overflow_checks, curveVars, parseVars, ops, dests, file>>

\* if config.unhilbertify { image.unhilbertify(); }
MainUnhilbertify ==
    /\ pc = "parsed"
    /\ IF config.unhilbertify
       THEN LET res == Image_unhilbertify(image)
            IN  /\ pc' = IF res.panic # "" THEN "panic" ELSE "transformed"
                /\ panic' = res.panic
                /\ image' = [image EXCEPT !.data = res.data]
                /\ dests' = res.dests
                /\ ops' = IF res.panic # "" THEN ops ELSE Append(ops, "unhilbertify")
       ELSE /\ pc' = "transformed"
            /\ UNCHANGED <<panic, image, dests, ops>>
    /\ UNCHANGED <<overflow_checks, curveVars, parseVars, orig, file>>

\* a resave that saves without the hilbertify pass
resave_unpermuted(img) ==
    [panic |-> "", data |-> img.data, dests |-> <<>>, bytes |-> Image_save(img)]

\* resave(image, config): image.hilbertify(); image.save(save_path).unwrap();
resave(img) ==
    LET res == Image_hilbertify(img)
    IN  [panic |-> res.panic, data |-> res.data, dests |-> res.dests,
         bytes |-> IF res.panic # "" THEN <<>>
                   ELSE Image_save([img EXCEPT !.data = res.data])]

\* if config.save_path.is_some() { resave(image, config); return; }
MainResave ==
    /\ pc = "transformed"
    /\ config.save_path
    /\ LET res == resave(image)
       IN  /\ pc' = IF res.panic # "" THEN "panic" ELSE "saved"
           /\ panic' = res.panic
           /\ image' = [image EXCEPT !.data = res.data]
           /\ dests' = res.dests
           /\ ops' = IF res.panic # "" THEN ops ELSE Append(ops, "hilbertify")
           /\ file' = IF res.panic # "" THEN file
                      ELSE [written |-> TRUE, bytes |-> res.bytes]
    /\ UNCHANGED <<overflow_checks, curveVars, parseVars, orig>>

\* let window = DrawerWindow::new(image); window.wait_exit();
MainDisplay ==
    /\ pc = "transformed"
    /\ ~config.save_path
    /\ pc' = "displayed"
    /\ UNCHANGED <<overflow_checks, panic, curveVars, parseVars, imageVars>>

Next == MainParse \/ MainUnhilbertify \/ MainResave \/ MainDisplay

Spec == Init /\ [][Next]_vars

(***************************************************************************)
(* main together with the passes called on a grid                          *)
(***************************************************************************)
InitPasses == Init \/ InitGrid

NextPasses == Next \/ NextGrid

SpecPasses == InitPasses /\ [][NextPasses]_vars

(***************************************************************************)
(* Properties of main                                                      *)
(***************************************************************************)
\* bytes is data flattened, r, g, b of each pixel in buffer order
IsFlattened(bytes, data) ==
    /\ Len(bytes) = 3 * Len(data)
    /\ \A k \in 1..Len(data) :
          /\ bytes[3 * k - 2] = data[k].r
          /\ bytes[3 * k - 1] = data[k].g
          /\ bytes[3 * k] = data[k].b

\* the grid main hands to resave: the parsed grid, after unhilbertify when
\* the flag is set
BeforeResave ==
    IF config.unhilbertify
    THEN [orig EXCEPT !.data = Image_unhilbertify(orig).data]
    ELSE orig

\* C4 as stated: whatever the unhilbertify flag, the bytes written are
\* width*height*3 bytes, the flattened hilbertify of the parsed grid.
C4_OutputIsHilbertified ==
    pc = "saved" =>
        /\ file.written
        /\ Len(file.bytes) = orig.width * orig.height * 3
        /\ IsFlattened(file.bytes, Image_hilbertify(orig).data)

\* C4 amended: the bytes written are width*height*3 bytes, the flattened
\* hilbertify of the parsed grid when the unhilbertify flag is unset, and of
\* the unhilbertified parsed grid when it is set; in the latter case, on a
\* grid whose side is a power of two, they are the flattened parsed grid
\* itself.
C4_OutputAmended ==
    pc = "saved" =>
        /\ file.written
        /\ Len(file.bytes) = orig.width * orig.height * 3
        /\ IsFlattened(file.bytes, Image_hilbertify(BeforeResave).data)
        /\ (config.unhilbertify /\ IsPow2(orig.width)) =>
              IsFlattened(file.bytes, orig.data)

C4_Witness ==
    /\ pc = "saved" /\ config.unhilbertify
    /\ orig.width = 4 /\ orig.height = 4
    /\ IsFlattened(file.bytes, orig.data)
    /\ ~IsFlattened(file.bytes, Image_hilbertify(orig).data)

\* C8: on a grid with width # height no pass runs to completion: the call
\* panics on its assertion with the data as it was, main gets neither past
\* a requested unhilbertify nor to a written file.
C8_NonSquareFails ==
    (orig # NoImage /\ ~Square(orig)) =>
        /\ image = orig
        /\ ops = <<>>
        /\ ~file.written
        /\ pc # "saved"
        /\ pc \in {"transformed", "displayed"} => ~config.unhilbertify
        /\ pc = "displayed" => ~config.save_path
        /\ pc = "panic" => panic = "assertion left == right failed"

C8_Witness ==
    /\ pc = "panic" /\ panic = "assertion left == right failed"
    /\ orig.width = 2 /\ orig.height = 3
    /\ Len(values) = 16
    /\ config.save_path /\ ~config.unhilbertify
    /\ image = orig /\ ~file.written

====
